---------------------------- MODULE Spec2Model ----------------------------
(***************************************************************************)
(* Model of torch/nn/quantized/modules/__init__.py: the Quantize and       *)
(* DeQuantize adapter modules around the affine quantization primitive.    *)
(*                                                                         *)
(* Real numbers are dyadic fixed point: the integer n stands for the real  *)
(* n / Unit.  A double is any value of that grid; a single precision       *)
(* value is a grid value with at most F32Mant significant bits, so that    *)
(* the conversion to single precision rounds (it is not the identity).     *)
(* Stored integers (zero_point, quantized elements) are plain integers.    *)
(***************************************************************************)
EXTENDS Integers, Sequences, FiniteSets

VARIABLES
    qm,      \* the Quantize instance the caller holds (its buffers and dtype)
    qt,      \* the integer tensor last produced (by Quantize.forward or by hand),
             \* with the call that produced it: its input x and the module's
             \* parameters at that time (at)
    out      \* the outcome of the last forward or from_float call: operation,
             \* status, argument, returned values (Idle after any other step)

vars == <<qm, qt, out>>

---------------------------------------------------------------------------
(* Bounds of the model *)

\* fractional bits of the fixed-point grid that stands for the reals
FracBits == 3
\* significant bits of the model's single precision (24 in IEEE binary32)
F32Mant == 3
\* longest one-dimensional input tensor
MaxLen == 1

Unit == 2 ^ FracBits

---------------------------------------------------------------------------
(* Arithmetic helpers *)

Abs(n) == IF n < 0 THEN -n ELSE n

\* n / d rounded to the nearest integer, ties to the even one (d > 0)
RoundHalfEven(n, d) ==
    LET q == n \div d
        r == n - q * d
    IN  IF 2 * r < d THEN q
        ELSE IF 2 * r > d THEN q + 1
        ELSE IF q % 2 = 0 THEN q ELSE q + 1

\* n / d rounded half away from zero (d > 0): not what the transform uses
RoundHalfAway(n, d) ==
    LET q == Abs(n) \div d
        r == Abs(n) - q * d
        m == IF 2 * r >= d THEN q + 1 ELSE q
    IN  IF n < 0 THEN -m ELSE m

RECURSIVE BitLen(_)
BitLen(n) == IF n = 0 THEN 0 ELSE 1 + BitLen(n \div 2)

\* a grid value converted to single precision: F32Mant significant bits, ties to even
ToFloat32(v) ==
    LET a == Abs(v)
        e == BitLen(a)
        step == IF e > F32Mant THEN 2 ^ (e - F32Mant) ELSE 1
        m == RoundHalfEven(a, step) * step
    IN  IF v < 0 THEN -m ELSE m

\* a grid value converted to a floating-point dtype
ToFloat(v, dt) == IF dt = "float32" THEN ToFloat32(v) ELSE v

\* a grid value converted to a 64-bit integer: truncation toward zero
ToLong(v) == IF v < 0 THEN -((-v) \div Unit) ELSE v \div Unit

\* a grid value converted to an integer by rounding: not what the cast does
ToLongRounded(v) == RoundHalfAway(v, Unit)

Clamp(v, lo, hi) == IF v < lo THEN lo ELSE IF v > hi THEN hi ELSE v

---------------------------------------------------------------------------
(* Quantized dtypes and their ranges *)

QDtypes == {"qint8", "quint8", "qint32"}

QMin(dtype) ==
    CASE dtype = "qint8" -> -128
      [] dtype = "quint8" -> 0
      [] OTHER -> -2147483647 - 1

QMax(dtype) ==
    CASE dtype = "qint8" -> 127
      [] dtype = "quint8" -> 255
      [] OTHER -> 2147483647

---------------------------------------------------------------------------
(* Values *)

NoParams == [scale |-> 0, zero_point |-> 0, dtype |-> "none"]
NoModule == [scale |-> 0, scale_dtype |-> "none", zero_point |-> 0, dtype |-> "none"]
NoInput == [shape |-> <<>>, data |-> <<>>]
NoTensor == [kind |-> "none", shape |-> <<>>, data |-> <<>>, tag |-> NoParams,
             x |-> NoInput, at |-> NoParams]
NoFloatModule == [has |-> FALSE, scale |-> 0, zero_point |-> 0, dtype |-> "none"]

\* the (scale, zero_point, dtype) a module holds
Params(self) == [scale |-> self.scale, zero_point |-> self.zero_point, dtype |-> self.dtype]

\* again: the call repeats the forward call that produced qt (same input, same
\* module parameters)
Outcome(op, status, value, arg, again) ==
    [op |-> op, status |-> status, value |-> value, arg |-> arg, again |-> again]
Idle == Outcome("none", "ok", <<>>, NoFloatModule, FALSE)

---------------------------------------------------------------------------
(* The quantization primitive and its inverse *)

\* torch.quantize_per_tensor(X, scale, zero_point, dtype)
quantize_per_tensor(X, scale, zero_point, dtype) ==
    IF scale <= 0
    THEN [status |-> "InvalidParameter", value |-> NoTensor]
    ELSE [status |-> "ok",
          value |-> [kind |-> "quantized",
                     shape |-> X.shape,
                     data |-> [i \in 1..Len(X.data) |->
                                 Clamp(RoundHalfEven(X.data[i], scale) + zero_point,
                                       QMin(dtype), QMax(dtype))],
                     tag |-> [scale |-> scale, zero_point |-> zero_point, dtype |-> dtype],
                     x |-> NoInput,
                     at |-> NoParams]]

\* Tensor.dequantize()
dequantize(Xq) ==
    IF Xq.kind # "quantized"
    THEN [status |-> "MissingParameters", value |-> <<>>]
    ELSE [status |-> "ok",
          value |-> [i \in 1..Len(Xq.data) |->
                       (Xq.data[i] - Xq.tag.zero_point) * Xq.tag.scale]]

---------------------------------------------------------------------------
(* Quantize *)

\* Quantize.__init__(scale, zero_point, dtype, factory_kwargs)
Quantize_init(scale, zero_point, dtype, factory_dtype) ==
    [scale |-> ToFloat(scale, factory_dtype),
     scale_dtype |-> factory_dtype,
     zero_point |-> ToLong(zero_point),
     dtype |-> dtype]

\* forward with scale and zero_point handed over in each other's place
Quantize_forward_swapped(self, X) ==
    [ret |-> quantize_per_tensor(X, self.zero_point * Unit, ToLong(self.scale), self.dtype),
     self |-> self]

\* forward that always quantizes to the widest dtype
Quantize_forward_wide(self, X) ==
    [ret |-> quantize_per_tensor(X, self.scale, self.zero_point, "qint32"),
     self |-> self]

\* forward that leaves the zero point out of the call
Quantize_forward_no_zero_point(self, X) ==
    [ret |-> quantize_per_tensor(X, self.scale, 0, self.dtype),
     self |-> self]

\* forward that recalibrates the module on the data it sees (an observer's habit)
Quantize_forward_calibrating(self, X) ==
    [ret |-> quantize_per_tensor(X, self.scale, self.zero_point, self.dtype),
     self |-> [self EXCEPT !.zero_point = self.zero_point + Len(X.data)]]

\* Quantize.forward(X): the returned value and the module after the call
Quantize_forward(self, X) ==
    [ret |-> quantize_per_tensor(X, self.scale, self.zero_point, self.dtype),
     self |-> self]

\* from_float that rounds the observer's zero point instead of truncating it
Quantize_from_float_rounded(mod) ==
    IF ~mod.has
    THEN [status |-> "AssertionError", module |-> NoModule]
    ELSE [status |-> "ok",
          module |-> Quantize_init(ToFloat32(mod.scale), ToLongRounded(mod.zero_point) * Unit,
                                   mod.dtype, "float32")]

\* Quantize.from_float(mod)
Quantize_from_float(mod) ==
    IF ~mod.has
    THEN [status |-> "AssertionError", module |-> NoModule]
    ELSE [status |-> "ok",
          module |-> Quantize_init(ToFloat32(mod.scale), ToLong(mod.zero_point) * Unit,
                                   mod.dtype, "float32")]

---------------------------------------------------------------------------
(* DeQuantize *)

\* forward that returns the stored integers as floats, without the affine map
DeQuantize_forward_int_repr(Xq) ==
    IF Xq.kind # "quantized"
    THEN dequantize(Xq)
    ELSE [status |-> "ok", value |-> [i \in 1..Len(Xq.data) |-> Xq.data[i] * Unit]]

\* forward that looks the parameters up in the Quantize module instead of the tensor
DeQuantize_forward_lookup(Xq) ==
    IF Xq.kind # "quantized" \/ qm = NoModule
    THEN dequantize(Xq)
    ELSE dequantize([Xq EXCEPT !.tag = Params(qm)])

\* forward that passes an untagged integer tensor through as floats
DeQuantize_forward_lenient(Xq) ==
    IF Xq.kind = "int"
    THEN [status |-> "ok", value |-> [i \in 1..Len(Xq.data) |-> Xq.data[i] * Unit]]
    ELSE dequantize(Xq)

\* DeQuantize.forward(Xq)
DeQuantize_forward(Xq) == dequantize(Xq)

---------------------------------------------------------------------------
(* Inputs *)

\* the scales a caller or an observer supplies: -1, 0, 1, 1 + 1/Unit
ScaleArgs == {-Unit, 0, Unit, Unit + 1}

\* the zero points a caller or an observer supplies: 0, 2, 2 3/4, 200
ZeroPointArgs == {0, 2 * Unit, (11 * Unit) \div 4, 200 * Unit}

FloatDtypes == {"float32", "float64"}

\* element values: -300, -1, 1/2, 1, 3/2, 300
ElemSeq == <<-300 * Unit, -Unit, Unit \div 2, Unit, (3 * Unit) \div 2, 300 * Unit>>

\* the tensor of the class docstrings: [[1., -1.], [1., -1.]]
DocTensor == [shape |-> <<2, 2>>, data |-> <<Unit, -Unit, Unit, -Unit>>]
DocParams == [scale |-> Unit, zero_point |-> 2, dtype |-> "qint8"]

\* one-dimensional tensors: the windows of ElemSeq of length 1..MaxLen
Windows ==
    {[shape |-> <<w[1]>>, data |-> SubSeq(ElemSeq, w[2], w[2] + w[1] - 1)] :
        w \in {v \in (1..MaxLen) \X (1..Len(ElemSeq)) : v[2] + v[1] - 1 <= Len(ElemSeq)}}

InputTensors == Windows \cup {DocTensor}

\* integer tensors a caller builds by hand, carrying no quantization parameters
IntTensors ==
    {[kind |-> "int", shape |-> <<1>>, data |-> <<v>>, tag |-> NoParams,
      x |-> NoInput, at |-> NoParams] : v \in {1, 3}}

\* float modules handed to from_float: without an observer, or with one whose
\* calculate_qparams() returns (scale, zero_point) and whose dtype is dtype
FloatModules ==
    {NoFloatModule} \cup
    [has : {TRUE}, scale : ScaleArgs, zero_point : ZeroPointArgs, dtype : QDtypes]

---------------------------------------------------------------------------
(* State machine *)

Init ==
    /\ qm = NoModule
    /\ qt = NoTensor
    /\ out = Idle

\* qm = Quantize(scale, zero_point, dtype, factory_kwargs)
Construct(scale, zero_point, dtype, factory_dtype) ==
    /\ qm' = Quantize_init(scale, zero_point, dtype, factory_dtype)
    /\ out' = Idle
    /\ UNCHANGED qt

\* qm = Quantize.from_float(mod)
FromFloat(mod) ==
    LET r == Quantize_from_float(mod)
    IN  /\ qm' = IF r.status = "ok" THEN r.module ELSE qm
        /\ out' = Outcome("Quantize.from_float", r.status, <<>>, mod, FALSE)
        /\ UNCHANGED qt

\* qt = qm(X)
Forward(X) ==
    /\ qm # NoModule
    /\ LET r == Quantize_forward(qm, X)
       IN  /\ qm' = r.self
           /\ qt' = IF r.ret.status = "ok"
                    THEN [r.ret.value EXCEPT !.x = X, !.at = Params(qm)]
                    ELSE qt
           /\ out' = Outcome("Quantize.forward", r.ret.status, <<>>, NoFloatModule,
                             qt.kind = "quantized" /\ qt.x = X /\ qt.at = Params(qm))

\* the caller builds an integer tensor directly, bypassing Quantize
Fabricate(T) ==
    /\ qt' = T
    /\ out' = Idle
    /\ UNCHANGED qm

\* dequantized = dqm(qt)
DeQuantizeCall ==
    /\ qt # NoTensor
    /\ LET r == DeQuantize_forward(qt)
       IN  out' = Outcome("DeQuantize.forward", r.status, r.value, NoFloatModule, FALSE)
    /\ UNCHANGED <<qm, qt>>

\* the registered buffers are overwritten in place (restore of a saved model)
LoadStateDict(scale, zero_point) ==
    /\ qm # NoModule
    /\ qm' = [qm EXCEPT !.scale = ToFloat(scale, qm.scale_dtype),
                        !.zero_point = zero_point]
    /\ out' = Idle
    /\ UNCHANGED qt

Next ==
    \/ \E s \in ScaleArgs, z \in ZeroPointArgs, d \in QDtypes, f \in FloatDtypes :
          Construct(s, z, d, f)
    \/ \E mod \in FloatModules : FromFloat(mod)
    \/ \E X \in InputTensors : Forward(X)
    \/ \E T \in IntTensors : Fabricate(T)
    \/ DeQuantizeCall
    \/ \E s \in ScaleArgs, z \in {ToLong(a) : a \in ZeroPointArgs} : LoadStateDict(s, z)

Spec == Init /\ [][Next]_vars

---------------------------------------------------------------------------
(* Properties *)

Quantized == qt.kind = "quantized"
Dequantized == out.op = "DeQuantize.forward" /\ out.status = "ok" /\ Quantized
ZeroPointInRange(p) == QMin(p.dtype) <= p.zero_point /\ p.zero_point <= QMax(p.dtype)

\* round(x / scale) + zero_point of element i of the call that produced qt
Raw(i) == RoundHalfEven(qt.x.data[i], qt.at.scale) + qt.at.zero_point

\* element i of the input lies in [scale*(min - zp), scale*(max - zp)], for
\* scale > 0: min - zp <= floor(x / scale) and ceil(x / scale) <= max - zp
\* (the products themselves leave the 32-bit integers for qint32)
Representable(i) ==
    /\ QMin(qt.at.dtype) <= (qt.x.data[i] \div qt.at.scale) + qt.at.zero_point
    /\ qt.at.zero_point - ((-qt.x.data[i]) \div qt.at.scale) <= QMax(qt.at.dtype)

\* C1: for a module with scale > 0, Quantize.forward succeeds and returns a tensor
\* of the input's shape, tagged with exactly the module's (scale, zero_point,
\* dtype), whose element i is clamp(round_half_even(x_i / scale) + zero_point,
\* dtype_min, dtype_max).
C1_ForwardContract ==
    /\ (out.op = "Quantize.forward" /\ qm.scale > 0) => out.status = "ok"
    /\ Quantized =>
          /\ qt.at.scale > 0
          /\ qt.shape = qt.x.shape
          /\ Len(qt.data) = Len(qt.x.data)
          /\ qt.tag = qt.at
          /\ \A i \in 1..Len(qt.data) :
                qt.data[i] = Clamp(Raw(i), QMin(qt.at.dtype), QMax(qt.at.dtype))

C1_Witness ==
    /\ out.op = "Quantize.forward" /\ out.status = "ok"
    /\ qt.at = [scale |-> Unit + 1, zero_point |-> 2, dtype |-> "quint8"]
    /\ qt.x.data = <<(3 * Unit) \div 2>>
    /\ qt.data = <<3>>

\* C2: no Quantize instance with scale <= 0 ever exists (construction with a
\* non-positive scale is rejected).
C2_NoNonPositiveScale == qm # NoModule => qm.scale > 0

\* C3: every Quantize instance, built by __init__ or by from_float, has its
\* zero_point within [dtype_min, dtype_max] of its dtype.
C3_ZeroPointInRange == qm # NoModule => ZeroPointInRange(qm)

\* C4: saturation. For a module with scale > 0, an element whose raw value lies
\* above dtype_max quantizes to exactly dtype_max, one whose raw value lies below
\* dtype_min to exactly dtype_min, and the call raises no error.
C4_Saturation ==
    /\ (out.op = "Quantize.forward" /\ qm.scale > 0) => out.status # "InvalidParameter"
    /\ Quantized =>
          \A i \in 1..Len(qt.x.data) :
             /\ Raw(i) > QMax(qt.at.dtype) => qt.data[i] = QMax(qt.at.dtype)
             /\ Raw(i) < QMin(qt.at.dtype) => qt.data[i] = QMin(qt.at.dtype)

C4_Witness ==
    /\ out.op = "Quantize.forward" /\ out.status = "ok"
    /\ qt.at = [scale |-> Unit, zero_point |-> 0, dtype |-> "qint8"]
    /\ qt.x.data = <<300 * Unit>>
    /\ qt.data = <<127>>

\* C5: round-trip bound. For valid parameters (scale > 0, zero_point in range)
\* and x_i inside [scale*(min - zp), scale*(max - zp)],
\* |dequantize(quantize(x))_i - x_i| <= scale / 2.
C5_RoundTripBound ==
    (Dequantized /\ qt.at.scale > 0 /\ ZeroPointInRange(qt.at)) =>
        \A i \in 1..Len(qt.x.data) :
            Representable(i) => 2 * Abs(out.value[i] - qt.x.data[i]) <= qt.at.scale

C5_Witness ==
    /\ Dequantized
    /\ qt.at = [scale |-> Unit + 1, zero_point |-> 2, dtype |-> "qint8"]
    /\ qt.x.data = <<(3 * Unit) \div 2>>
    /\ Representable(1)
    /\ out.value[1] # qt.x.data[1]

\* C6: exact round trip on grid points. An element that is an integer multiple of
\* scale (> 0) inside the representable range is reproduced exactly; the
\* docstring tensor under scale 1, zero_point 2, qint8 is stored as
\* [[3, 1], [3, 1]] and dequantizes to itself.
C6_GridRoundTrip ==
    /\ (Quantized /\ qt.x = DocTensor /\ qt.at = DocParams) => qt.data = <<3, 1, 3, 1>>
    /\ (Dequantized /\ qt.at.scale > 0) =>
          \A i \in 1..Len(qt.x.data) :
              (qt.x.data[i] % qt.at.scale = 0 /\ Representable(i)) =>
                  out.value[i] = qt.x.data[i]

C6_Witness ==
    /\ Dequantized
    /\ qt.x = DocTensor /\ qt.at = DocParams
    /\ out.value = DocTensor.data

\* C7: DeQuantize.forward computes (q_i - zero_point) * scale from the parameters
\* the tensor was quantized with, whatever Quantize instance exists now and
\* whatever its buffers have become since.
C7_SelfDescribingInverse ==
    Dequantized =>
        /\ Len(out.value) = Len(qt.data)
        /\ \A i \in 1..Len(qt.data) :
              out.value[i] = (qt.data[i] - qt.at.zero_point) * qt.at.scale

C7_Witness ==
    /\ Dequantized
    /\ qm # NoModule
    /\ qm.scale # qt.at.scale
    /\ qm.zero_point # qt.at.zero_point
    /\ qt.at.zero_point # 0

\* C8: DeQuantize.forward on an integer tensor without quantization parameters
\* fails with MissingParameters and returns nothing; on a tagged tensor it
\* succeeds.
C8_MissingParameters ==
    out.op = "DeQuantize.forward" =>
        /\ qt.kind = "int" => (out.status = "MissingParameters" /\ out.value = <<>>)
        /\ Quantized => out.status = "ok"

C8_Witness ==
    /\ out.op = "DeQuantize.forward"
    /\ qt.kind = "int"
    /\ out.status = "MissingParameters"

\* C9: no hidden state. A forward call of either module leaves the Quantize
\* module's scale, zero_point and dtype as they were; a forward call that repeats
\* the input and parameters of the call that produced the current tensor returns
\* the same tensor, and a repeated dequantize returns the same values.
C9_NoHiddenState ==
    [][ /\ out'.op = "Quantize.forward" =>
              /\ qm' = qm
              /\ (out'.status = "ok" /\ Quantized /\ qt'.x = qt.x /\ qt'.at = qt.at)
                    => qt' = qt
        /\ out'.op = "DeQuantize.forward" =>
              /\ qm' = qm
              /\ qt' = qt
              /\ out.op = "DeQuantize.forward" => out' = out ]_vars

C9_Witness ==
    /\ out.op = "Quantize.forward" /\ out.status = "ok"
    /\ out.again
    /\ qt.at.zero_point = 2

\* C10 as stated: from_float without an observer fails and creates no module;
\* otherwise the module's scale and zero_point are the pair returned by
\* calculate_qparams() (zero_point converted to an integer) and its dtype is the
\* observer's.
C10_Original ==
    [][ out'.op = "Quantize.from_float" =>
           IF ~out'.arg.has
           THEN out'.status = "AssertionError" /\ qm' = qm
           ELSE /\ out'.status = "ok"
                /\ qm'.scale = out'.arg.scale
                /\ qm'.zero_point = ToLong(out'.arg.zero_point)
                /\ qm'.dtype = out'.arg.dtype ]_vars

\* C10 amended: from_float without an observer fails and creates no module;
\* otherwise the module's scale is the observer's scale rounded to single
\* precision, its zero_point the observer's zero point truncated toward zero,
\* and its dtype the observer's.
C10_FromFloat ==
    [][ out'.op = "Quantize.from_float" =>
           IF ~out'.arg.has
           THEN out'.status = "AssertionError" /\ qm' = qm
           ELSE /\ out'.status = "ok"
                /\ qm'.scale = ToFloat32(out'.arg.scale)
                /\ qm'.zero_point = ToLong(out'.arg.zero_point)
                /\ qm'.dtype = out'.arg.dtype ]_vars

C10_Witness ==
    /\ out.op = "Quantize.from_float" /\ out.status = "ok"
    /\ out.arg.scale = Unit + 1 /\ qm.scale = Unit
    /\ out.arg.zero_point = (11 * Unit) \div 4 /\ qm.zero_point = 2

====
